---- MODULE Spec2Model ----
(***************************************************************************)
(* Model of ir_national_id_validator.py: normalisation and validation of   *)
(* Iranian national ID codes.                                              *)
(*                                                                         *)
(* A Python str is a sequence of Unicode code points (integers).  An       *)
(* Optional value is None or Some(v).  The module is stateless; the state  *)
(* of the model is the last call made on its surface: the function called, *)
(* its argument, what it returned or raised, what it printed, and the      *)
(* internal functions the call went through.                               *)
(***************************************************************************)
EXTENDS Integers, Sequences, FiniteSets, TLC

VARIABLES call, arg, ret, raised, stdout, trace

vars == <<call, arg, ret, raised, stdout, trace>>

\* ------------------------------------------------------------------ values

None == [none |-> TRUE]
Some(v) == [none |-> FALSE, val |-> v]

\* ------------------------------------------------------- bounds of the model

\* longest text drawn freely over Alphabet
MaxLen == 3
\* most command-line arguments after the program name
MaxArgs == 2
\* free trailing positions of the ten-digit code families
NumFree == 1

\* -------------------------------------------------------------- characters

\* code points for which str.isspace() is true (what str.strip() removes)
Whitespace ==
    (9..13) \cup (28..32) \cup {133, 160, 5760} \cup (8192..8202)
        \cup {8232, 8233, 8239, 8287, 12288}

\* code points matched by \d in a str pattern that occur in the inputs:
\* ASCII, Arabic-Indic, Extended Arabic-Indic (Persian), Devanagari
UnicodeDigitBase == {48, 1632, 1776, 2406}

IsUnicodeDigit(ch) == \E b \in UnicodeDigitBase : ch \in b..(b + 9)

\* int(ch) of a single decimal digit character
IntOfChar(ch) == ch - (CHOOSE b \in UnicodeDigitBase : ch \in b..(b + 9))

\* faulty variant: the Arabic row of the table is missing
DIGIT_MAP_persian_only ==
    (1776 :> 48) @@ (1777 :> 49) @@ (1778 :> 50) @@ (1779 :> 51) @@ (1780 :> 52) @@
    (1781 :> 53) @@ (1782 :> 54) @@ (1783 :> 55) @@ (1784 :> 56) @@ (1785 :> 57)

\* _DIGIT_MAP: Persian and Arabic digits to latin, entry by entry
DIGIT_MAP ==
    (1776 :> 48) @@ (1777 :> 49) @@ (1778 :> 50) @@ (1779 :> 51) @@ (1780 :> 52) @@
    (1781 :> 53) @@ (1782 :> 54) @@ (1783 :> 55) @@ (1784 :> 56) @@ (1785 :> 57) @@
    (1632 :> 48) @@ (1633 :> 49) @@ (1634 :> 50) @@ (1635 :> 51) @@ (1636 :> 52) @@
    (1637 :> 53) @@ (1638 :> 54) @@ (1639 :> 55) @@ (1640 :> 56) @@ (1641 :> 57)

\* str(i) * 10 for one digit i
RepeatDigit(i, n) == [k \in 1..n |-> 48 + i]

\* faulty variant: range(1, 10), so "0000000000" is not in the set
INVALID_SAME_DIGITS_from_1 == {RepeatDigit(i, 10) : i \in 1..9}

\* _INVALID_SAME_DIGITS = {str(i) * 10 for i in range(10)}
INVALID_SAME_DIGITS == {RepeatDigit(i, 10) : i \in 0..9}

\* faulty variant: the pattern without its final $, which accepts a ten-digit prefix
RE_10_DIGITS_match_no_end(norm) ==
    /\ Len(norm) >= 10
    /\ \A k \in 1..10 : IsUnicodeDigit(norm[k])

\* _RE_10_DIGITS.match(norm): ^\d{10}$ ; $ also matches before a final newline
RE_10_DIGITS_match(norm) ==
    /\ Len(norm) \in {10, 11}
    /\ \A k \in 1..10 : IsUnicodeDigit(norm[k])
    /\ Len(norm) = 11 => norm[11] = 10

\* ---------------------------------------------------------------- normalizer

\* str.strip(): drop leading and trailing whitespace
Strip(str) ==
    LET keep == {k \in 1..Len(str) : str[k] \notin Whitespace}
    IN  IF keep = {} THEN <<>>
        ELSE SubSeq(str, CHOOSE k \in keep : \A j \in keep : k <= j,
                         CHOOSE k \in keep : \A j \in keep : k >= j)

\* the loop over s that appends _DIGIT_MAP[ch] or ch, then ''.join
MapDigits(str) ==
    [k \in 1..Len(str) |->
        IF str[k] \in DOMAIN DIGIT_MAP THEN DIGIT_MAP[str[k]] ELSE str[k]]

IsLatinDigit(ch) == ch \in 48..57

\* faulty variant: re.sub with count=1, which removes the first non-digit only
RemoveNonDigits_first_only(joined) ==
    LET bad == {k \in 1..Len(joined) : ~IsLatinDigit(joined[k])}
    IN  IF bad = {} THEN joined
        ELSE LET f == CHOOSE k \in bad : \A j \in bad : k <= j
             IN  SubSeq(joined, 1, f - 1) \o SubSeq(joined, f + 1, Len(joined))

\* re.sub(r'[^0-9]', '', joined)
RemoveNonDigits(joined) == SelectSeq(joined, IsLatinDigit)

normalize_national_id(s) ==
    IF s = None THEN <<>>
    ELSE LET stripped == Strip(s.val)
         IN  IF stripped = <<>> THEN <<>>
             ELSE RemoveNonDigits(MapDigits(stripped))

\* ------------------------------------------------------------------ checksum

\* the outcome of a call that may raise
Raised == [exc |-> TRUE]
Returned(v) == [exc |-> FALSE, val |-> v]

\* digits = [int(ch) for ch in code10]
DigitsOf(code10) == [k \in 1..Len(code10) |-> IntOfChar(code10[k])]

\* faulty variant: weight = 9 - i
RECURSIVE WeightedSum_weights_from_9(_, _)
WeightedSum_weights_from_9(digits, i) ==
    IF i >= 9 THEN 0
    ELSE digits[i + 1] * (9 - i) + WeightedSum_weights_from_9(digits, i + 1)

\* s after the loop "for i in range(9): s += digits[i] * (10 - i)", from index i on
RECURSIVE WeightedSum(_, _)
WeightedSum(digits, i) ==
    IF i >= 9 THEN 0 ELSE digits[i + 1] * (10 - i) + WeightedSum(digits, i + 1)

\* faulty variant: r < 1 in place of r < 2
ExpectedCheckDigit_lt_1(r) == IF r < 1 THEN r ELSE 11 - r

\* the digit check_digit is compared with: r if r < 2 else 11 - r
ExpectedCheckDigit(r) == IF r < 2 THEN r ELSE 11 - r

\* faulty variant: check_digit = digits[10], one past the last of ten digits
checksum_ok_index_10(code10) ==
    IF \E k \in 1..Len(code10) : ~IsUnicodeDigit(code10[k]) THEN Raised
    ELSE IF Len(code10) < 11 THEN Raised
    ELSE LET digits == DigitsOf(code10)
             r == WeightedSum(digits, 0) % 11
         IN  Returned(digits[11] = ExpectedCheckDigit(r))

\* _checksum_ok: ValueError from int(ch) on a non-digit, IndexError from
\* digits[i] on fewer than ten characters, otherwise the comparison
checksum_ok(code10) ==
    IF \E k \in 1..Len(code10) : ~IsUnicodeDigit(code10[k]) THEN Raised
    ELSE IF Len(code10) < 10 THEN Raised
    ELSE LET digits == DigitsOf(code10)
             s == WeightedSum(digits, 0)
             r == s % 11
             check_digit == digits[10]
         IN  Returned(check_digit = ExpectedCheckDigit(r))

\* --------------------------------------------------------------- validation

REASON_EMPTY == <<101, 109, 112, 116, 121>>
REASON_LENGTH_OR_NOT_DIGITS ==
    <<108, 101, 110, 103, 116, 104, 95, 111, 114, 95, 110, 111, 116, 95,
      100, 105, 103, 105, 116, 115>>
REASON_ALL_SAME_DIGITS ==
    <<97, 108, 108, 95, 115, 97, 109, 101, 95, 100, 105, 103, 105, 116, 115>>
REASON_CHECKSUM == <<99, 104, 101, 99, 107, 115, 117, 109>>
REASON_CHECKSUM_ERROR ==
    <<99, 104, 101, 99, 107, 115, 117, 109, 95, 101, 114, 114, 111, 114>>

\* one entry of trace: a call the handler made
Called(fn, a) == [fn |-> fn, arg |-> a]

\* faulty variant: the length failure returns None in place of norm
is_valid_national_id_drops_norm(s) ==
    IF s = None
    THEN [ret |-> <<FALSE, Some(REASON_EMPTY), None>>, calls |-> <<>>]
    ELSE
    LET norm == normalize_national_id(s)
        n == <<Called("normalize_national_id", s)>>
    IN  IF norm = <<>>
        THEN [ret |-> <<FALSE, Some(REASON_EMPTY), None>>, calls |-> n]
        ELSE IF ~RE_10_DIGITS_match(norm)
        THEN [ret |-> <<FALSE, Some(REASON_LENGTH_OR_NOT_DIGITS), None>>,
              calls |-> n]
        ELSE IF norm \in INVALID_SAME_DIGITS
        THEN [ret |-> <<FALSE, Some(REASON_ALL_SAME_DIGITS), Some(norm)>>,
              calls |-> n]
        ELSE
        LET c == checksum_ok(norm)
            nc == Append(n, Called("_checksum_ok", norm))
        IN  IF c.exc
            THEN [ret |-> <<FALSE, Some(REASON_CHECKSUM_ERROR), Some(norm)>>,
                  calls |-> nc]
            ELSE IF ~c.val
            THEN [ret |-> <<FALSE, Some(REASON_CHECKSUM), Some(norm)>>,
                  calls |-> nc]
            ELSE [ret |-> <<TRUE, None, Some(norm)>>, calls |-> nc]

\* is_valid_national_id: ret is the tuple returned, calls the functions it
\* went through
is_valid_national_id(s) ==
    IF s = None
    THEN [ret |-> <<FALSE, Some(REASON_EMPTY), None>>, calls |-> <<>>]
    ELSE
    LET norm == normalize_national_id(s)
        n == <<Called("normalize_national_id", s)>>
    IN  IF norm = <<>>
        THEN [ret |-> <<FALSE, Some(REASON_EMPTY), None>>, calls |-> n]
        ELSE IF ~RE_10_DIGITS_match(norm)
        THEN [ret |-> <<FALSE, Some(REASON_LENGTH_OR_NOT_DIGITS), Some(norm)>>,
              calls |-> n]
        ELSE IF norm \in INVALID_SAME_DIGITS
        THEN [ret |-> <<FALSE, Some(REASON_ALL_SAME_DIGITS), Some(norm)>>,
              calls |-> n]
        ELSE
        LET c == checksum_ok(norm)
            nc == Append(n, Called("_checksum_ok", norm))
        IN  IF c.exc
            THEN [ret |-> <<FALSE, Some(REASON_CHECKSUM_ERROR), Some(norm)>>,
                  calls |-> nc]
            ELSE IF ~c.val
            THEN [ret |-> <<FALSE, Some(REASON_CHECKSUM), Some(norm)>>,
                  calls |-> nc]
            ELSE [ret |-> <<TRUE, None, Some(norm)>>, calls |-> nc]

\* {x} in an f-string, for an Optional[str]
Format(x) == IF x = None THEN <<78, 111, 110, 101>> ELSE x.val

\* faulty variant: the message leaves the normalized code out
ErrorMessage_without_norm(reason, norm) ==
    <<73, 110, 118, 97, 108, 105, 100, 32, 110, 97, 116, 105, 111, 110, 97, 108,
      32, 105, 100, 58, 32, 114, 101, 97, 115, 111, 110, 61>>
        \o Format(reason)

\* f"Invalid national id: reason={reason}, normalized={norm}"
ErrorMessage(reason, norm) ==
    <<73, 110, 118, 97, 108, 105, 100, 32, 110, 97, 116, 105, 111, 110, 97, 108,
      32, 105, 100, 58, 32, 114, 101, 97, 115, 111, 110, 61>>
        \o Format(reason)
        \o <<44, 32, 110, 111, 114, 109, 97, 108, 105, 122, 101, 100, 61>>
        \o Format(norm)

\* validate_or_raise: the value returned, or the message of the ValueError
validate_or_raise(s) ==
    LET r == is_valid_national_id(s)
        ok == r.ret[1]
        reason == r.ret[2]
        norm == r.ret[3]
    IN  IF ok
        THEN [ret |-> norm, raised |-> None, calls |-> <<Called("is_valid_national_id", s)>>]
        ELSE [ret |-> None, raised |-> Some(ErrorMessage(reason, norm)),
              calls |-> <<Called("is_valid_national_id", s)>>]

is_valid(s) == is_valid_national_id(s).ret[1]

\* ---------------------------------------------------------------------- CLI

USAGE_LINE ==
    <<85, 115, 97, 103, 101, 58, 32, 112, 121, 116, 104, 111, 110, 32, 105, 114,
      95, 110, 97, 116, 105, 111, 110, 97, 108, 95, 105, 100, 95, 118, 97, 108,
      105, 100, 97, 116, 111, 114, 46, 112, 121, 32, 60, 110, 97, 116, 105, 111,
      110, 97, 108, 95, 105, 100, 62, 32, 91, 60, 110, 97, 116, 105, 111, 110,
      97, 108, 95, 105, 100, 62, 32, 46, 46, 46, 93>>

\* f"VALID  -> {code}  normalized: {norm}"
ValidLine(code, norm) ==
    <<86, 65, 76, 73, 68, 32, 32, 45, 62, 32>> \o code
        \o <<32, 32, 110, 111, 114, 109, 97, 108, 105, 122, 101, 100, 58, 32>>
        \o Format(norm)

\* f"INVALID -> {code}  reason: {reason}  normalized: {norm}"
InvalidLine(code, reason, norm) ==
    <<73, 78, 86, 65, 76, 73, 68, 32, 45, 62, 32>> \o code
        \o <<32, 32, 114, 101, 97, 115, 111, 110, 58, 32>> \o Format(reason)
        \o <<32, 32, 110, 111, 114, 109, 97, 108, 105, 122, 101, 100, 58, 32>>
        \o Format(norm)

\* faulty variant: the loop breaks at the first invalid argument
RECURSIVE CliLoop_stops_at_invalid(_, _, _, _, _)
CliLoop_stops_at_invalid(argv, k, exit_code, out, calls) ==
    IF k > Len(argv)
    THEN [ret |-> exit_code, stdout |-> out, calls |-> calls]
    ELSE LET code == argv[k]
             r == is_valid_national_id(Some(code)).ret
             c == Append(calls, Called("is_valid_national_id", Some(code)))
         IN  IF r[1]
             THEN CliLoop_stops_at_invalid(argv, k + 1, exit_code,
                          Append(out, ValidLine(code, r[3])), c)
             ELSE [ret |-> 1, stdout |-> Append(out, InvalidLine(code, r[2], r[3])),
                   calls |-> c]

\* the loop "for code in argv[1:]" from position k of argv on, entered with
\* exit_code, the lines printed and the calls made so far
RECURSIVE CliLoop(_, _, _, _, _)
CliLoop(argv, k, exit_code, out, calls) ==
    IF k > Len(argv)
    THEN [ret |-> exit_code, stdout |-> out, calls |-> calls]
    ELSE LET code == argv[k]
             r == is_valid_national_id(Some(code)).ret
             c == Append(calls, Called("is_valid_national_id", Some(code)))
         IN  IF r[1]
             THEN CliLoop(argv, k + 1, exit_code,
                          Append(out, ValidLine(code, r[3])), c)
             ELSE CliLoop(argv, k + 1, 1,
                          Append(out, InvalidLine(code, r[2], r[3])), c)

\* _cli_main(argv)
cli_main(argv) ==
    IF Len(argv) < 2
    THEN [ret |-> 2, stdout |-> <<USAGE_LINE>>, calls |-> <<>>]
    ELSE CliLoop(argv, 2, 0, <<>>, <<>>)

\* ------------------------------------------------------------------- inputs

\* '0', '1', Persian one, Arabic zero, space, '-', 'a', Devanagari one, newline
Alphabet == {48, 49, 1777, 1632, 32, 45, 97, 2407, 10}

Texts == UNION {[1..n -> Alphabet] : n \in 0..MaxLen}

\* ten-digit codes as digit values: "0499370899", "1234567890" and the ten
\* repeated-digit codes, the last NumFree + 1 positions ranging over all digits
BaseDigits ==
    {<<0, 4, 9, 9, 3, 7, 0, 8, 9, 9>>, <<1, 2, 3, 4, 5, 6, 7, 8, 9, 0>>}
        \cup {[k \in 1..10 |-> c] : c \in 0..9}

CodeDigits ==
    {[k \in 1..10 |-> IF k <= 9 - NumFree THEN b[k] ELSE f[k - (9 - NumFree)]] :
        b \in BaseDigits, f \in [1..(NumFree + 1) -> 0..9]}

Scripts == {"latin", "persian", "arabic"}

ScriptBase(script, k) ==
    CASE script = "latin" -> 48
      [] script = "persian" -> 1776
      [] script = "arabic" -> 1632
      [] script = "mixed" -> <<48, 1776, 1632>>[(k % 3) + 1]

Render(d, script) == [k \in 1..Len(d) |-> ScriptBase(script, k) + d[k]]

\* " 049-937089-9\n": blanks around, dashes inside
Decorate(t) ==
    <<32>> \o SubSeq(t, 1, 3) \o <<45>> \o SubSeq(t, 4, 9) \o <<45>>
        \o SubSeq(t, 10, Len(t)) \o <<10>>

CodeTexts == {Render(d, sc) : d \in CodeDigits, sc \in Scripts}

DecoratedTexts == {Decorate(Render(d, "mixed")) : d \in CodeDigits}

\* nine and eleven digits: a code without its last digit, or with one more
OffLengthTexts ==
    {SubSeq(Render(b, sc), 1, 9) : b \in BaseDigits, sc \in Scripts}
        \cup {Render(b \o <<b[1]>>, sc) : b \in BaseDigits, sc \in Scripts}

Inputs ==
    {None} \cup
    {Some(t) : t \in Texts \cup CodeTexts \cup DecoratedTexts \cup OffLengthTexts}

\* arguments of direct calls of _checksum_ok
ChecksumInputs ==
    {Render(d, "latin") : d \in CodeDigits}
        \cup {t \in Texts : Len(t) <= 1}
        \cup {t \in OffLengthTexts : \A k \in 1..Len(t) : IsLatinDigit(t[k])}

PROGRAM_NAME ==
    <<105, 114, 95, 110, 97, 116, 105, 111, 110, 97, 108, 95, 105, 100, 95, 118,
      97, 108, 105, 100, 97, 116, 111, 114, 46, 112, 121>>

\* "0499370899" in latin and in Persian digits, "1234567890", "1111111111",
\* "" and "12-34"
CliArgs ==
    {Render(<<0, 4, 9, 9, 3, 7, 0, 8, 9, 9>>, "latin"),
     Render(<<0, 4, 9, 9, 3, 7, 0, 8, 9, 9>>, "persian"),
     Render(<<1, 2, 3, 4, 5, 6, 7, 8, 9, 0>>, "latin"),
     RepeatDigit(1, 10),
     <<>>,
     <<49, 50, 45, 51, 52>>}

Argvs ==
    {<<>>} \cup
    UNION {{<<PROGRAM_NAME>> \o a : a \in [1..n -> CliArgs]} : n \in 0..MaxArgs}

\* ------------------------------------------------------------ state machine

Init ==
    /\ call = "idle"
    /\ arg = None
    /\ ret = None
    /\ raised = None
    /\ stdout = <<>>
    /\ trace = <<>>

Normalize(s) ==
    /\ call' = "normalize_national_id"
    /\ arg' = s
    /\ ret' = normalize_national_id(s)
    /\ raised' = None
    /\ stdout' = <<>>
    /\ trace' = <<>>

\* the caller passes the string the previous call of the normalizer returned
NormalizeAgain ==
    /\ call = "normalize_national_id"
    /\ call' = "normalize_national_id"
    /\ arg' = Some(ret)
    /\ ret' = normalize_national_id(Some(ret))
    /\ raised' = None
    /\ stdout' = <<>>
    /\ trace' = <<Called("normalize_national_id", arg)>>

ChecksumOk(code10) ==
    LET c == checksum_ok(code10)
    IN  /\ call' = "_checksum_ok"
        /\ arg' = code10
        /\ ret' = IF c.exc THEN None ELSE Some(c.val)
        /\ raised' = IF c.exc THEN Some(<<>>) ELSE None
        /\ stdout' = <<>>
        /\ trace' = <<>>

IsValidNationalId(s) ==
    LET r == is_valid_national_id(s)
    IN  /\ call' = "is_valid_national_id"
        /\ arg' = s
        /\ ret' = r.ret
        /\ raised' = None
        /\ stdout' = <<>>
        /\ trace' = r.calls

ValidateOrRaise(s) ==
    LET r == validate_or_raise(s)
    IN  /\ call' = "validate_or_raise"
        /\ arg' = s
        /\ ret' = r.ret
        /\ raised' = r.raised
        /\ stdout' = <<>>
        /\ trace' = r.calls

IsValid(s) ==
    /\ call' = "is_valid"
    /\ arg' = s
    /\ ret' = is_valid(s)
    /\ raised' = None
    /\ stdout' = <<>>
    /\ trace' = <<Called("is_valid_national_id", s)>>

CliMain(argv) ==
    LET r == cli_main(argv)
    IN  /\ call' = "_cli_main"
        /\ arg' = argv
        /\ ret' = r.ret
        /\ raised' = None
        /\ stdout' = r.stdout
        /\ trace' = r.calls

\* the call is over and its result dropped: nothing outlives a call
Return ==
    /\ call # "idle"
    /\ call' = "idle"
    /\ arg' = None
    /\ ret' = None
    /\ raised' = None
    /\ stdout' = <<>>
    /\ trace' = <<>>

CallNormalize == call = "idle" /\ \E s \in Inputs : Normalize(s)

CallChecksumOk == call = "idle" /\ \E code10 \in ChecksumInputs : ChecksumOk(code10)

CallIsValidNationalId == call = "idle" /\ \E s \in Inputs : IsValidNationalId(s)

CallValidateOrRaise == call = "idle" /\ \E s \in Inputs : ValidateOrRaise(s)

CallIsValid == call = "idle" /\ \E s \in Inputs : IsValid(s)

CallCliMain == call = "idle" /\ \E argv \in Argvs : CliMain(argv)

Next ==
    \/ CallNormalize
    \/ NormalizeAgain
    \/ CallChecksumOk
    \/ CallIsValidNationalId
    \/ CallValidateOrRaise
    \/ CallIsValid
    \/ CallCliMain
    \/ Return

Spec == Init /\ [][Next]_vars

\* ------------------------------------------------- what the claims speak of

\* the value of a latin, Persian (U+06F0..U+06F9) or Arabic (U+0660..U+0669)
\* digit, -1 for any other character
ClaimDigitValue(ch) ==
    IF ch \in 48..57 THEN ch - 48
    ELSE IF ch \in 1776..1785 THEN ch - 1776
    ELSE IF ch \in 1632..1641 THEN ch - 1632
    ELSE -1

\* the digit characters of text, in order, each as the latin digit of its value
RECURSIVE ClaimDigitsOf(_)
ClaimDigitsOf(text) ==
    IF text = <<>> THEN <<>>
    ELSE (IF ClaimDigitValue(Head(text)) >= 0
          THEN <<48 + ClaimDigitValue(Head(text))>> ELSE <<>>)
         \o ClaimDigitsOf(Tail(text))

\* the normalized form of an optional text, as the specification words it
ClaimNormalForm(s) == IF s = None THEN <<>> ELSE ClaimDigitsOf(s.val)

\* the check digit of ten latin digits: S = sum d[i]*(10-i), R = S mod 11,
\* R when R < 2 and 11 - R otherwise
ClaimRemainder(n) ==
    (10 * (n[1] - 48) + 9 * (n[2] - 48) + 8 * (n[3] - 48) + 7 * (n[4] - 48)
        + 6 * (n[5] - 48) + 5 * (n[6] - 48) + 4 * (n[7] - 48) + 3 * (n[8] - 48)
        + 2 * (n[9] - 48)) % 11

ClaimCheckDigit(n) ==
    IF ClaimRemainder(n) < 2 THEN ClaimRemainder(n) ELSE 11 - ClaimRemainder(n)

ClaimAllSame(n) == \A k \in 1..Len(n) : n[k] = n[1]

ClaimContains(msg, sub) ==
    \E i \in 0..(Len(msg) - Len(sub)) : SubSeq(msg, i + 1, i + Len(sub)) = sub

TenLatinDigits(t) == Len(t) = 10 /\ \A k \in 1..10 : t[k] \in 48..57

TEXT_0499370899 == <<48, 52, 57, 57, 51, 55, 48, 56, 57, 57>>
TEXT_1234567890 == <<49, 50, 51, 52, 53, 54, 55, 56, 57, 48>>

\* --------------------------------------------------------------------- claims

C3_ResultShape ==
    call = "is_valid_national_id"
    => /\ ret[1] \in BOOLEAN
       /\ (ret[2] = None) <=> (ret[1] = TRUE)
       /\ (ret[3] = None) <=> (ClaimNormalForm(arg) = <<>>)
       /\ (ret[3] = None) <=> (ret[2] = Some(REASON_EMPTY))
       /\ ret[3] # None => ret[3].val = normalize_national_id(arg)

\* "1-0" fails on its length and still reports the digits parsed out of it
C3_Witness ==
    /\ call = "is_valid_national_id"
    /\ arg = Some(<<49, 45, 48>>)
    /\ ret = <<FALSE, Some(REASON_LENGTH_OR_NOT_DIGITS), Some(<<49, 48>>)>>

\* C4: an input whose normalized form is one digit ten times is rejected with
\* (False, 'all_same_digits', that string) and _checksum_ok is not called.
C4_RepeatedDigitRejected ==
    (call = "is_valid_national_id" /\ TenLatinDigits(ClaimNormalForm(arg))
        /\ ClaimAllSame(ClaimNormalForm(arg)))
    => /\ ret = <<FALSE, Some(REASON_ALL_SAME_DIGITS), Some(ClaimNormalForm(arg))>>
       /\ \A k \in 1..Len(trace) : trace[k].fn # "_checksum_ok"

\* ten Arabic zeros: rejected, although 0000000000 satisfies the check digit
C4_Witness ==
    /\ call = "is_valid_national_id"
    /\ arg = Some([k \in 1..10 |-> 1632])
    /\ ret = <<FALSE, Some(REASON_ALL_SAME_DIGITS), Some([k \in 1..10 |-> 48])>>
    /\ ClaimCheckDigit([k \in 1..10 |-> 48]) = 0

\* C5: normalize_national_id returns latin digits only: the digit characters
\* of the input in their order, Persian and Arabic digits as the latin digit
\* of the same value, every other character dropped; an absent, empty or
\* all-whitespace input gives the empty string.
C5_NormalizeKeepsDigitsInOrder ==
    call = "normalize_national_id"
    => /\ ret = ClaimNormalForm(arg)
       /\ \A k \in 1..Len(ret) : ret[k] \in 48..57
       /\ (arg = None \/ \A k \in 1..Len(arg.val) : arg.val[k] \in {32, 10}) => ret = <<>>

\* Persian one, a dash and Arabic zero give "10"
C5_Witness ==
    /\ call = "normalize_national_id"
    /\ arg = Some(<<1777, 45, 1632>>)
    /\ ret = <<49, 48>>

\* C6: normalizing a string the normalizer returned gives that string back.
C6_NormalizeIdempotent ==
    (call = "normalize_national_id" /\ trace # <<>>) => ret = arg.val

\* " 1a" normalizes to "1", and "1" normalizes to "1"
C6_Witness ==
    /\ call = "normalize_national_id"
    /\ trace = <<Called("normalize_national_id", Some(<<32, 1777, 97>>))>>
    /\ arg = Some(<<49>>)
    /\ ret = <<49>>

\* C7: validate_or_raise raises exactly when is_valid_national_id finds the
\* input invalid, and otherwise returns the ten-digit normalized code it
\* reported; the message of the error holds the reason and the normalized
\* code reported ("checksum" and "1234567890" for "1234567890").
C7_RaiseIffInvalid ==
    call = "validate_or_raise"
    => LET r == is_valid_national_id(arg).ret
       IN  /\ (raised # None) <=> ~r[1]
           /\ r[1] => (ret = r[3] /\ TenLatinDigits(ret.val))
           /\ ~r[1] => /\ ret = None
                       /\ ClaimContains(raised.val, r[2].val)
                       /\ ClaimContains(raised.val,
                              IF r[3] = None THEN <<78, 111, 110, 101>> ELSE r[3].val)
           /\ arg = Some(TEXT_1234567890)
                => /\ raised # None
                   /\ ClaimContains(raised.val, REASON_CHECKSUM)
                   /\ ClaimContains(raised.val, TEXT_1234567890)

\* validate_or_raise("1234567890") raised
C7_Witness ==
    /\ call = "validate_or_raise"
    /\ arg = Some(TEXT_1234567890)
    /\ raised # None
    /\ ret = None

\* C8: _cli_main returns 2 and validates nothing when given no argument;
\* otherwise it validates every argument, in order, and returns 1 if one of
\* them is invalid and 0 if all are valid.
C8_CliExitCode ==
    call = "_cli_main"
    => IF Len(arg) < 2
       THEN ret = 2 /\ trace = <<>>
       ELSE /\ Len(trace) = Len(arg) - 1
            /\ \A k \in 1..Len(trace) :
                   trace[k] = Called("is_valid_national_id", Some(arg[k + 1]))
            /\ Len(stdout) = Len(arg) - 1
            /\ ret = IF \E k \in 2..Len(arg) :
                            ~TenLatinDigits(ClaimNormalForm(Some(arg[k])))
                            \/ ClaimAllSame(ClaimNormalForm(Some(arg[k])))
                            \/ ClaimNormalForm(Some(arg[k]))[10] - 48
                                 # ClaimCheckDigit(ClaimNormalForm(Some(arg[k])))
                     THEN 1 ELSE 0

\* an invalid argument followed by a valid one: both validated, exit status 1
C8_Witness ==
    /\ call = "_cli_main"
    /\ arg = <<PROGRAM_NAME, TEXT_1234567890, TEXT_0499370899>>
    /\ Len(trace) = 2
    /\ ret = 1

\* C9: is_valid_national_id never returns 'checksum_error': what reaches
\* _checksum_ok is ten latin digits.
C9_ChecksumErrorUnreachable ==
    call = "is_valid_national_id"
    => /\ ret[2] # Some(REASON_CHECKSUM_ERROR)
       /\ \A k \in 1..Len(trace) :
              trace[k].fn = "_checksum_ok" => TenLatinDigits(trace[k].arg)

\* an input of mixed scripts with blanks and dashes reaches the checksum
C9_Witness ==
    /\ call = "is_valid_national_id"
    /\ Len(trace) = 2
    /\ trace[2].fn = "_checksum_ok"
    /\ \E k \in 1..Len(arg.val) : arg.val[k] = 45
    /\ \E k \in 1..Len(arg.val) : arg.val[k] \in 1776..1785
    /\ \E k \in 1..Len(arg.val) : arg.val[k] \in 1632..1641

\* C10: for ten latin digits, the expected check digit of the first nine is
\* in 0..9, exactly one tenth digit makes _checksum_ok true, and when the
\* code passes, every other tenth digit fails.
C10_CheckDigitUnique ==
    (call = "_checksum_ok" /\ TenLatinDigits(arg))
    => LET with(z) == SubSeq(arg, 1, 9) \o <<48 + z>>
       IN  /\ raised = None
           /\ ExpectedCheckDigit(ClaimRemainder(arg)) \in 0..9
           /\ Cardinality({z \in 0..9 : checksum_ok(with(z)) = Returned(TRUE)}) = 1
           /\ ret = Some(TRUE)
                => \A z \in 0..9 : z # arg[10] - 48
                                     => checksum_ok(with(z)) = Returned(FALSE)

\* 0499370831 passes with R = 1
C10_Witness ==
    /\ call = "_checksum_ok"
    /\ arg = <<48, 52, 57, 57, 51, 55, 48, 56, 51, 49>>
    /\ ClaimRemainder(arg) = 1
    /\ ret = Some(TRUE)

====
